---- MODULE Spec2Model ----
(***************************************************************************)
(* A model of NCERT/questionbank/scripts/run_pipeline.py: the batch        *)
(* pipeline normalize_text -> split_sections -> parse_answer_key ->        *)
(* build_questions -> build_chunks -> report, and the pure functions it is *)
(* made of.  A text is a sequence of one-character strings, so that        *)
(* stripping, splitting, joining and the regular expressions are computed  *)
(* character by character as Python computes them.                         *)
(***************************************************************************)
EXTENDS Integers, Sequences, FiniteSets, TLC

VARIABLES
    pc,         \* position in the operation being run
    env,        \* what the run finds outside: config.json, the PDF's pages, pypdf
    config,     \* the loaded configuration: a function from field names to values
    raw_text,   \* main: the extracted text, before normalize_text
    text,       \* the normalized text / the text argument of the function under test
    renorm,     \* normalize_text applied to text once more
    sections,   \* the section list
    answers,    \* the answer-key mapping: a function from number strings to answers
    questions,  \* the questions built so far
    chunks,     \* the chunks produced so far
    words,      \* chunk_text: text.split()
    max_words,  \* chunk_text: window size
    overlap,    \* chunk_text: overlap
    step,       \* chunk_text: advance per window
    idx,        \* chunk_text: start of the next window (0-based)
    sec_i,      \* build_chunks: number of sections already visited
    chunk_index,\* build_chunks: the global chunk counter
    files,      \* the set of output files written so far
    outdir,     \* whether output_dir exists
    error       \* "none", or the kind of failure that ended the run

vars == <<pc, env, config, raw_text, text, renorm, sections, answers, questions, chunks,
          words, max_words, overlap, step, idx, sec_i, chunk_index, files, outdir, error>>

(***************************************************************************)
(* Characters and strings                                                  *)
(***************************************************************************)

\* A Python str as a sequence of its characters.
Chars(s) == [i \in 1..Len(s) |-> SubSeq(s, i, i)]

LowerLetters == Chars("abcdefghijklmnopqrstuvwxyz")
UpperLetters == Chars("ABCDEFGHIJKLMNOPQRSTUVWXYZ")
Digits == {"0", "1", "2", "3", "4", "5", "6", "7", "8", "9"}

\* Characters with a code point above 127 that the model's texts may contain:
\* the letters U+00E9, U+03C0, U+00C9 and U+03A0 and the whitespace characters
\* U+0085, U+00A0 and U+1680.
NonAsciiChars == {"é", "π", "É", "Π", "", " ", " "}

\* Python's whitespace, as str.strip(), str.split() and the regex class \s see
\* it: space, \t, \n, \r, \f, U+000B, U+001C..U+001F, U+0085, U+00A0, U+1680
\* (and the spaces from U+2000 on, which a text of the model cannot contain).
IsSpace(c) ==
    c \in {" ", "\t", "\n", "\r", "\f", "", "", "", "", "",
           "", " ", " "}

IsDigit(c) == c \in Digits

IsLetter(c) == \E i \in 1..26 : c = LowerLetters[i] \/ c = UpperLetters[i]

\* The regex class \w on str patterns: letters (of any script), digits, underscore.
IsWord(c) == IsLetter(c) \/ IsDigit(c) \/ c = "_" \/ (c \in NonAsciiChars /\ ~IsSpace(c))

\* str.upper() and str.lower() on one character.
UpperChar(c) ==
    IF \E i \in 1..26 : c = LowerLetters[i]
    THEN UpperLetters[CHOOSE i \in 1..26 : c = LowerLetters[i]]
    ELSE IF c = "é" THEN "É"
    ELSE IF c = "π" THEN "Π"
    ELSE c

LowerChar(c) ==
    IF \E i \in 1..26 : c = UpperLetters[i]
    THEN LowerLetters[CHOOSE i \in 1..26 : c = UpperLetters[i]]
    ELSE IF c = "É" THEN "é"
    ELSE IF c = "Π" THEN "π"
    ELSE c

upper(s) == [i \in 1..Len(s) |-> UpperChar(s[i])]
lower(s) == [i \in 1..Len(s) |-> LowerChar(s[i])]

\* s[from:] in Python terms, with from a 1-based position.
Drop(s, from) == SubSeq(s, from, Len(s))

\* s with the characters of class Cls(_) cut from both of its ends.
StripClass(s, Cls(_)) ==
    IF \A i \in 1..Len(s) : Cls(s[i]) THEN <<>>
    ELSE LET lead == CHOOSE d \in 0..(Len(s) - 1) :
                         ~Cls(s[d + 1]) /\ \A k \in 1..d : Cls(s[k])
             trail == CHOOSE d \in 0..(Len(s) - 1) :
                          ~Cls(s[Len(s) - d]) /\ \A k \in 0..(d - 1) : Cls(s[Len(s) - k])
         IN  SubSeq(s, lead + 1, Len(s) - trail)

\* str.strip(): cut the leading and the trailing whitespace.
strip(s) == StripClass(s, IsSpace)

\* s.startswith(p) and "p in s".
startswith(s, p) == Len(p) <= Len(s) /\ SubSeq(s, 1, Len(p)) = p

MatchAt(s, p, i) == i >= 1 /\ i + Len(p) - 1 <= Len(s) /\ SubSeq(s, i, i + Len(p) - 1) = p

contains(s, p) == \E i \in 1..(Len(s) + 1) : MatchAt(s, p, i)

\* The position after the longest run of characters of class Cls(_) starting at i.
RunEnd(s, i, Cls(_)) ==
    CHOOSE j \in i..(Len(s) + 1) :
        /\ (j = Len(s) + 1 \/ ~Cls(s[j]))
        /\ \A k \in i..(j - 1) : Cls(s[k])

\* sep.join(parts), halving the list so that a long one needs a shallow recursion.
RECURSIVE join(_, _)
join(sep, parts) ==
    IF parts = <<>> THEN <<>>
    ELSE IF Len(parts) = 1 THEN parts[1]
    ELSE LET h == Len(parts) \div 2
         IN  join(sep, SubSeq(parts, 1, h)) \o sep \o join(sep, SubSeq(parts, h + 1, Len(parts)))

\* str.splitlines(): lines end at "\r\n" or at one of \n, \r, \f, U+000B,
\* U+001C, U+001D, U+001E, U+0085 (and U+2028, U+2029, which a text of the model
\* cannot contain); no empty last line.
IsLineEnd(c) == c \in {"\n", "\r", "\f", "", "", "", "", ""}

RECURSIVE splitlines(_)
splitlines(s) ==
    IF s = <<>> THEN <<>>
    ELSE LET e == RunEnd(s, 1, LAMBDA c : ~IsLineEnd(c))
         IN  IF e > Len(s) THEN <<s>>
             ELSE LET after == IF s[e] = "\r" /\ e < Len(s) /\ s[e + 1] = "\n"
                               THEN e + 2 ELSE e + 1
                  IN  <<SubSeq(s, 1, e - 1)>> \o splitlines(Drop(s, after))

\* str.split(): the maximal runs of non-whitespace characters, in order.  The
\* text is cut at a whitespace character near its middle and the halves' word
\* lists are concatenated, so a long text needs only a shallow recursion.
RECURSIVE split(_)
split(s) ==
    LET t == strip(s)
        mid == (Len(t) + 1) \div 2
    IN  IF t = <<>> THEN <<>>
        ELSE IF \A i \in 1..Len(t) : ~IsSpace(t[i]) THEN <<t>>
        ELSE LET cut == IF \E i \in mid..Len(t) : IsSpace(t[i])
                        THEN RunEnd(t, mid, LAMBDA c : ~IsSpace(c))
                        ELSE CHOOSE i \in 1..(mid - 1) :
                                 IsSpace(t[i]) /\ \A k \in (i + 1)..(mid - 1) : ~IsSpace(t[k])
             IN  split(SubSeq(t, 1, cut - 1)) \o split(Drop(t, cut + 1))

\* len(text.split()) without building the list.
WordCount(s) ==
    Cardinality({i \in 1..Len(s) : ~IsSpace(s[i]) /\ (i = 1 \/ IsSpace(s[i - 1]))})

\* str(n) for n >= 0.
RECURSIVE str(_)
str(n) ==
    LET d == SubSeq("0123456789", (n % 10) + 1, (n % 10) + 1)
    IN  IF n < 10 THEN <<d>> ELSE str(n \div 10) \o <<d>>

\* to_ascii: drop every character with a code point above 127.
to_ascii(s) == SelectSeq(s, LAMBDA c : c \notin NonAsciiChars)

\* count_non_ascii.
count_non_ascii(s) == Len(SelectSeq(s, LAMBDA c : c \in NonAsciiChars))

(***************************************************************************)
(* normalize_text                                                          *)
(***************************************************************************)

\* text.replace("\r\n", "\n").replace("\r", "\n")
RECURSIVE UnifyNewlines(_)
UnifyNewlines(s) ==
    IF s = <<>> THEN <<>>
    ELSE IF s[1] = "\r"
         THEN <<"\n">> \o UnifyNewlines(Drop(s, IF Len(s) >= 2 /\ s[2] = "\n" THEN 3 ELSE 2))
         ELSE <<s[1]>> \o UnifyNewlines(Tail(s))

\* re.sub(r"(\w)-\n(\w)", r"\1\2", s): matches are found left to right and do
\* not overlap, the scan resumes after the last character of a match.
RECURSIVE RepairHyphens(_)
RepairHyphens(s) ==
    IF s = <<>> THEN <<>>
    ELSE IF Len(s) >= 4 /\ IsWord(s[1]) /\ s[2] = "-" /\ s[3] = "\n" /\ IsWord(s[4])
         THEN <<s[1], s[4]>> \o RepairHyphens(Drop(s, 5))
         ELSE <<s[1]>> \o RepairHyphens(Tail(s))

\* re.sub(r"[ \t]+", " ", s)
IsBlank(c) == c \in {" ", "\t"}

RECURSIVE CollapseBlanks(_)
CollapseBlanks(s) ==
    IF s = <<>> THEN <<>>
    ELSE IF IsBlank(s[1])
         THEN <<" ">> \o CollapseBlanks(Drop(s, RunEnd(s, 1, IsBlank)))
         ELSE <<s[1]>> \o CollapseBlanks(Tail(s))

\* re.sub(r"\n{3,}", "\n\n", s)
IsNewline(c) == c = "\n"

RECURSIVE CollapseNewlines(_)
CollapseNewlines(s) ==
    IF s = <<>> THEN <<>>
    ELSE IF s[1] = "\n"
         THEN LET e == RunEnd(s, 1, IsNewline)
              IN  (IF e - 1 >= 3 THEN <<"\n", "\n">> ELSE SubSeq(s, 1, e - 1))
                  \o CollapseNewlines(Drop(s, e))
         ELSE <<s[1]>> \o CollapseNewlines(Tail(s))

normalize_text(s) == strip(CollapseNewlines(CollapseBlanks(RepairHyphens(UnifyNewlines(s)))))

(***************************************************************************)
(* is_heading, classify_section, make_section, split_sections              *)
(***************************************************************************)

\* A literal of a pattern compiled with re.I, matched at position i.
MatchAtCI(s, p, i) ==
    i >= 1 /\ i + Len(p) - 1 <= Len(s) /\ upper(SubSeq(s, i, i + Len(p) - 1)) = upper(p)

\* The regex assertion \b just before position j.
WordBoundary(s, j) ==
    (j - 1 >= 1 /\ j - 1 <= Len(s) /\ IsWord(s[j - 1])) # (j >= 1 /\ j <= Len(s) /\ IsWord(s[j]))

\* The position after the longest sequence of groups (\.\d+) starting at i.
RECURSIVE DottedEnd(_, _)
DottedEnd(s, i) ==
    IF i + 1 <= Len(s) /\ s[i] = "." /\ IsDigit(s[i + 1])
    THEN DottedEnd(s, RunEnd(s, i + 1, IsDigit))
    ELSE i

\* ^CHAPTER\s+\d+\b
IsChapterHeading(s) ==
    LET b == RunEnd(s, 8, IsSpace)
        c == RunEnd(s, b, IsDigit)
    IN  MatchAtCI(s, Chars("CHAPTER"), 1) /\ b > 8 /\ c > b /\ WordBoundary(s, c)

\* ^\d+(\.\d+)+\s+\S+
IsOutlineHeading(s) ==
    LET a == RunEnd(s, 1, IsDigit)
        g == DottedEnd(s, a)
        w == RunEnd(s, g, IsSpace)
    IN  a > 1 /\ g > a /\ w > g /\ w <= Len(s)

\* ^EXERCISE\s+\d+(\.\d+)?\b
IsExerciseHeading(s) ==
    LET b == RunEnd(s, 9, IsSpace)
        c == RunEnd(s, b, IsDigit)
        d == RunEnd(s, c + 1, IsDigit)
    IN  /\ MatchAtCI(s, Chars("EXERCISE"), 1) /\ b > 9 /\ c > b
        /\ \/ WordBoundary(s, c)
           \/ c + 1 <= Len(s) /\ s[c] = "." /\ d > c + 1 /\ WordBoundary(s, d)

\* ^MISCELLANEOUS\s+EXERCISE\b
IsMiscExerciseHeading(s) ==
    LET b == RunEnd(s, 14, IsSpace)
    IN  /\ MatchAtCI(s, Chars("MISCELLANEOUS"), 1) /\ b > 14
        /\ MatchAtCI(s, Chars("EXERCISE"), b) /\ WordBoundary(s, b + 8)

\* ^SUMMARY\b
IsSummaryHeading(s) == MatchAtCI(s, Chars("SUMMARY"), 1) /\ WordBoundary(s, 8)

\* ^HISTORICAL\s+NOTE\b
IsHistoricalNoteHeading(s) ==
    LET b == RunEnd(s, 11, IsSpace)
    IN  /\ MatchAtCI(s, Chars("HISTORICAL"), 1) /\ b > 11
        /\ MatchAtCI(s, Chars("NOTE"), b) /\ WordBoundary(s, b + 4)

\* ^ANSWERS?\b
IsAnswersHeading(s) ==
    \/ MatchAtCI(s, Chars("ANSWERS"), 1) /\ WordBoundary(s, 8)
    \/ MatchAtCI(s, Chars("ANSWER"), 1) /\ WordBoundary(s, 7)

is_heading(line) ==
    LET s == strip(line)
    IN  /\ s # <<>>
        /\ \/ IsChapterHeading(s)
           \/ IsOutlineHeading(s)
           \/ IsExerciseHeading(s)
           \/ IsMiscExerciseHeading(s)
           \/ IsSummaryHeading(s)
           \/ IsHistoricalNoteHeading(s)
           \/ IsAnswersHeading(s)

classify_section(title) ==
    LET t == upper(title)
    IN  IF contains(t, Chars("EXERCISE")) THEN "exercise"
        ELSE IF startswith(t, Chars("CHAPTER")) THEN "chapter"
        ELSE IF contains(t, Chars("SUMMARY")) THEN "summary"
        ELSE IF contains(t, Chars("HISTORICAL NOTE")) THEN "note"
        ELSE IF startswith(t, Chars("ANSWERS")) THEN "answers"
        ELSE "section"

make_section(title, lines) ==
    [title |-> title, type |-> classify_section(title), text |-> strip(join(<<"\n">>, lines))]

\* The title of the section that precedes the first heading.
FrontMatter == Chars("front_matter")

\* The for loop of split_sections from line i on, then the final flush.
RECURSIVE SplitLoop(_, _, _, _, _)
SplitLoop(lines, i, current_title, current_lines, done) ==
    IF i > Len(lines)
    THEN IF current_lines # <<>>
         THEN Append(done, make_section(current_title, current_lines))
         ELSE done
    ELSE IF is_heading(lines[i])
         THEN SplitLoop(lines, i + 1, strip(lines[i]), <<>>,
                        IF current_lines # <<>>
                        THEN Append(done, make_section(current_title, current_lines))
                        ELSE done)
         ELSE SplitLoop(lines, i + 1, current_title, Append(current_lines, lines[i]), done)

split_sections(s) == SplitLoop(splitlines(s), 1, FrontMatter, <<>>, <<>>)

(***************************************************************************)
(* chunk_text                                                              *)
(***************************************************************************)

\* An optional value: Python's None, or a value that is present.
None == <<>>
Some(v) == <<v>>

\* The defaults of chunk_text's keyword parameters.
DefaultMaxWords == 200
DefaultOverlap == 40

Min(a, b) == IF a <= b THEN a ELSE b

\* A faulty step: the overlap is not subtracted.
ChunkStepIgnoringOverlap(mw, ov) == mw

\* step = max_words - overlap; if step <= 0: step = max_words
ChunkStep(mw, ov) == IF mw - ov <= 0 THEN mw ELSE mw - ov

\* A faulty slice: words[i : i + mw - 1], one word short.
WordSliceShort(w, i, mw) == SubSeq(w, i + 1, Min(i + mw - 1, Len(w)))

\* words[i : i + mw] for a 0-based i >= 0 and mw >= 0.
WordSlice(w, i, mw) == SubSeq(w, i + 1, Min(i + mw, Len(w)))

\* The while loop of chunk_text from idx = i on; each chunk is kept as its word list.
RECURSIVE ChunkLoop(_, _, _, _, _)
ChunkLoop(w, mw, st, i, done) ==
    IF i < Len(w) /\ WordSlice(w, i, mw) # <<>>
    THEN ChunkLoop(w, mw, st, i + st, Append(done, WordSlice(w, i, mw)))
    ELSE done

\* chunk_text on the word list text.split().
ChunkWords(w, mw, ov) == IF w = <<>> THEN <<>> ELSE ChunkLoop(w, mw, ChunkStep(mw, ov), 0, <<>>)

chunk_text(s, mw, ov) ==
    LET parts == ChunkWords(split(s), mw, ov)
    IN  [k \in 1..Len(parts) |-> join(<<" ">>, parts[k])]

(***************************************************************************)
(* parse_answer_key                                                        *)
(***************************************************************************)

EmptyMap == [k \in {} |-> <<>>]

\* A faulty store: an existing entry is kept (first write wins).
PutIfAbsent(map, key, value) ==
    [k \in (DOMAIN map) \cup {key} |-> IF k \in DOMAIN map THEN map[k] ELSE value]

\* answers[key] = value
Put(map, key, value) ==
    [k \in (DOMAIN map) \cup {key} |-> IF k = key THEN value ELSE map[k]]

\* dict.get(key): None when the key is absent.
Get(map, key) == IF key \in DOMAIN map THEN Some(map[key]) ELSE None

\* The group (.+) of a pattern that ends \s*(.+)$, on the rest of the line from
\* position i: \s* gives one character back when the rest is all whitespace.
LastGroup(line, i) ==
    LET w == RunEnd(line, i, IsSpace)
    IN  IF w <= Len(line) THEN Drop(line, w) ELSE Drop(line, Len(line))

\* re.match(r"^\s*(\d+)\.\s*(.+)$", line): None, or the groups (1) and (2).
AnswerMatch(line) ==
    LET a == RunEnd(line, 1, IsSpace)
        b == RunEnd(line, a, IsDigit)
    IN  IF b > a /\ b + 1 <= Len(line) /\ line[b] = "."
        THEN Some(<<SubSeq(line, a, b - 1), LastGroup(line, b + 1)>>)
        ELSE None

\* The inner loop of parse_answer_key over the lines of one answers section.
RECURSIVE AnswerLines(_, _, _)
AnswerLines(lines, i, map) ==
    IF i > Len(lines) THEN map
    ELSE LET m == AnswerMatch(lines[i])
         IN  AnswerLines(lines, i + 1,
                         IF m # None THEN Put(map, m[1][1], strip(m[1][2])) ELSE map)

\* One iteration of the outer loop of parse_answer_key.
AnswerSection(section, map) ==
    IF section.type # "answers" THEN map
    ELSE AnswerLines(splitlines(section.text), 1, map)

RECURSIVE AnswerLoop(_, _, _)
AnswerLoop(secs, i, map) ==
    IF i > Len(secs) THEN map ELSE AnswerLoop(secs, i + 1, AnswerSection(secs[i], map))

parse_answer_key(secs) == AnswerLoop(secs, 1, EmptyMap)

(***************************************************************************)
(* parse_questions_from_section                                            *)
(***************************************************************************)

\* re.match(r"^\s*(\d+)\.\s+(.*)$", line)
QuestionMatch(line) ==
    LET a == RunEnd(line, 1, IsSpace)
        b == RunEnd(line, a, IsDigit)
        c == RunEnd(line, b + 1, IsSpace)
    IN  IF b > a /\ b + 1 <= Len(line) /\ line[b] = "." /\ c > b + 1
        THEN Some(<<SubSeq(line, a, b - 1), Drop(line, c)>>)
        ELSE None

\* re.match(r"^\s*Q\.?\s*(\d+)\s*[-:.]?\s*(.*)$", line, re.I)
AltMatch(line) ==
    LET a == RunEnd(line, 1, IsSpace)
        p == IF a + 1 <= Len(line) /\ line[a + 1] = "." THEN a + 2 ELSE a + 1
        q == RunEnd(line, p, IsSpace)
        r == RunEnd(line, q, IsDigit)
        u == RunEnd(line, r, IsSpace)
        v == IF u <= Len(line) /\ line[u] \in {"-", ":", "."} THEN u + 1 ELSE u
        z == RunEnd(line, v, IsSpace)
    IN  IF a <= Len(line) /\ line[a] \in {"Q", "q"} /\ r > q
        THEN Some(<<SubSeq(line, q, r - 1), Drop(line, z)>>)
        ELSE None

\* A line on which either pattern matches, and the match the code uses.
StartMatch(line) == IF QuestionMatch(line) # None THEN QuestionMatch(line) ELSE AltMatch(line)

\* A faulty close-out: the accumulated lines are joined by a space.
CloseQuestionOnOneLine(current_num, current) ==
    [number |-> current_num, text |-> strip(join(<<" ">>, current))]

\* {"number": current_num, "text": "\n".join(current).strip()}
CloseQuestion(current_num, current) ==
    [number |-> current_num, text |-> strip(join(<<"\n">>, current))]

\* The for loop of parse_questions_from_section from line i on, then the final
\* close-out; open is "current is not None".
RECURSIVE QuestionLoop(_, _, _, _, _, _)
QuestionLoop(lines, i, open, current, current_num, done) ==
    IF i > Len(lines)
    THEN IF open THEN Append(done, CloseQuestion(current_num, current)) ELSE done
    ELSE LET m == StartMatch(lines[i])
         IN  IF m # None
             THEN QuestionLoop(lines, i + 1, TRUE,
                               IF strip(m[1][2]) # <<>> THEN <<strip(m[1][2])>> ELSE <<>>,
                               m[1][1],
                               IF open THEN Append(done, CloseQuestion(current_num, current))
                               ELSE done)
             ELSE QuestionLoop(lines, i + 1, open,
                               IF open /\ strip(lines[i]) # <<>>
                               THEN Append(current, strip(lines[i])) ELSE current,
                               current_num, done)

parse_questions_from_section(section) ==
    QuestionLoop(splitlines(section.text), 1, FALSE, <<>>, <<>>, <<>>)

(***************************************************************************)
(* extract_options, detect_topics, score_difficulty, slugify               *)
(***************************************************************************)

\* re.match(r"^\s*\(?([a-dA-D])\)\s*(.+)$", line)
OptionMatch(line) ==
    LET a == RunEnd(line, 1, IsSpace)
        p == IF a <= Len(line) /\ line[a] = "(" THEN a + 1 ELSE a
    IN  IF /\ p + 2 <= Len(line)
           /\ line[p] \in {"a", "b", "c", "d", "A", "B", "C", "D"}
           /\ line[p + 1] = ")"
        THEN Some(<<<<line[p]>>, LastGroup(line, p + 2)>>)
        ELSE None

RECURSIVE OptionLoop(_, _, _)
OptionLoop(lines, i, options) ==
    IF i > Len(lines) THEN options
    ELSE LET m == OptionMatch(lines[i])
         IN  OptionLoop(lines, i + 1,
                        IF m # None THEN Append(options, strip(m[1][2])) ELSE options)

\* return options or None
extract_options(s) ==
    LET options == OptionLoop(splitlines(s), 1, <<>>)
    IN  IF options # <<>> THEN Some(options) ELSE None

TOPIC_KEYWORDS ==
    << <<"set", <<"set", "sets", "subset", "superset", "power set">> >>,
       <<"operations", <<"union", "intersection", "difference", "complement">> >>,
       <<"notation", <<"roster", "set-builder", "element", "belongs", "empty set">> >>,
       <<"venn", <<"venn", "diagram">> >>,
       <<"intervals", <<"interval", "open interval", "closed interval">> >> >>

detect_topics(s) ==
    LET text_lower == lower(s)
        hit(t) == \E k \in 1..Len(TOPIC_KEYWORDS[t][2]) :
                      contains(text_lower, Chars(TOPIC_KEYWORDS[t][2][k]))
        hits == SelectSeq([t \in 1..Len(TOPIC_KEYWORDS) |-> t], hit)
    IN  [n \in 1..Len(hits) |-> TOPIC_KEYWORDS[hits[n]][1]]

\* re.search(r"\bw\b", s) for a literal w.
SearchWord(s, w) ==
    \E i \in 1..Len(s) :
        MatchAt(s, w, i) /\ WordBoundary(s, i) /\ WordBoundary(s, i + Len(w))

\* re.search(r"\bprove\b|\bshow that\b|\bderive\b|\bverify\b", lower)
HasProofWord(s) ==
    \/ SearchWord(s, Chars("prove"))
    \/ SearchWord(s, Chars("show that"))
    \/ SearchWord(s, Chars("derive"))
    \/ SearchWord(s, Chars("verify"))

\* re.search(r"\bif\b.*\bthen\b", lower): "." does not match a newline.
HasIfThen(s) ==
    \E i \in 1..Len(s) :
        /\ MatchAt(s, Chars("if"), i) /\ WordBoundary(s, i) /\ WordBoundary(s, i + 2)
        /\ \E j \in (i + 2)..Len(s) :
               /\ MatchAt(s, Chars("then"), j) /\ WordBoundary(s, j) /\ WordBoundary(s, j + 4)
               /\ \A k \in (i + 2)..(j - 1) : s[k] # "\n"

\* re.search(r"\b(i\)|\(ii\)|\(a\)|\(b\))", lower): the \b stands before the group.
HasSubPart(s) ==
    \E i \in 1..Len(s) :
        /\ WordBoundary(s, i)
        /\ \/ MatchAt(s, Chars("i)"), i)
           \/ MatchAt(s, Chars("(ii)"), i)
           \/ MatchAt(s, Chars("(a)"), i)
           \/ MatchAt(s, Chars("(b)"), i)

\* len(text.split()) > 80
LongStemWords == 80

IsLongStem(s) == WordCount(s) > LongStemWords

\* re.search(r"[=<>]|union|intersection|complement|subset", lower)
HasSetSymbol(s) ==
    \/ \E i \in 1..Len(s) : s[i] \in {"=", "<", ">"}
    \/ contains(s, Chars("union"))
    \/ contains(s, Chars("intersection"))
    \/ contains(s, Chars("complement"))
    \/ contains(s, Chars("subset"))

Bit(b) == IF b THEN 1 ELSE 0

\* The score before the clamp: 1 plus one for each rule that fires.
RawScore(s) ==
    LET l == lower(s)
    IN  1 + Bit(HasProofWord(l)) + Bit(HasIfThen(l)) + Bit(HasSubPart(l))
          + Bit(IsLongStem(s)) + Bit(HasSetSymbol(l))

\* if score > levels: score = levels
Clamp(score, levels) == IF score > levels THEN levels ELSE score

score_difficulty(s, levels) == Clamp(RawScore(s), levels)

IsSlugChar(c) == (\E i \in 1..26 : c = LowerLetters[i]) \/ IsDigit(c)

\* re.sub(r"[^a-z0-9]+", "_", value)
RECURSIVE ReplaceNonSlug(_)
ReplaceNonSlug(s) ==
    IF s = <<>> THEN <<>>
    ELSE IF ~IsSlugChar(s[1])
         THEN <<"_">> \o ReplaceNonSlug(Drop(s, RunEnd(s, 1, LAMBDA c : ~IsSlugChar(c))))
         ELSE <<s[1]>> \o ReplaceNonSlug(Tail(s))

\* value.strip("_")
StripUnderscores(s) == StripClass(s, LAMBDA c : c = "_")

slugify(value) == StripUnderscores(ReplaceNonSlug(lower(value)))

(***************************************************************************)
(* build_questions, build_chunks                                           *)
(***************************************************************************)

\* f"{slugify(config['subject'])}_{config['class']}_ch{config['chapter']}"
BaseId(cfg) == slugify(cfg["subject"]) \o <<"_">> \o cfg["class"] \o Chars("_ch") \o cfg["chapter"]

\* Python's truth value of answers.get(q_num): a present, non-empty string.
Truthy(opt) == opt # None /\ opt[1] # <<>>

\* "answer": to_ascii(answer) if answer else None
AnswerField(answer) == IF Truthy(answer) THEN Some(to_ascii(answer[1])) ELSE None

\* A faulty label: any entry of the answer key counts, an empty one too.
AnswerSourceOfAnyEntry(answer) == IF answer # None THEN "answer_key" ELSE "missing"

\* "answer_source": "answer_key" if answer else "missing"
AnswerSource(answer) == IF Truthy(answer) THEN "answer_key" ELSE "missing"

\* The dict appended for question q, the idx-th (from 1) of its section.
Question(section, q, i, map, cfg) ==
    LET q_num == IF q.number # <<>> THEN q.number ELSE str(i)
        answer == Get(map, q_num)
        stem == to_ascii(strip(q.text))
        section_slug == IF slugify(section.title) # <<>> THEN slugify(section.title)
                        ELSE Chars("exercise")
    IN  [id |-> BaseId(cfg) \o <<"_">> \o section_slug \o Chars("_q") \o q_num,
         source |-> "exercise",
         section_title |-> section.title,
         question_number |-> q_num,
         stem |-> stem,
         options |-> extract_options(stem),
         answer |-> AnswerField(answer),
         answer_source |-> AnswerSource(answer),
         difficulty |-> score_difficulty(stem, cfg["difficulty_levels"]),
         topics |-> detect_topics(stem),
         metadata |-> [subject |-> cfg["subject"], class |-> cfg["class"],
                       chapter |-> cfg["chapter"], book |-> cfg["book"]]]

\* One iteration of the loop of build_questions over the sections.
SectionQuestions(section, map, cfg) ==
    IF section.type # "exercise" THEN <<>>
    ELSE LET qs == parse_questions_from_section(section)
         IN  [i \in 1..Len(qs) |-> Question(section, qs[i], i, map, cfg)]

RECURSIVE QuestionsLoop(_, _, _, _, _)
QuestionsLoop(secs, i, map, cfg, done) ==
    IF i > Len(secs) THEN done
    ELSE QuestionsLoop(secs, i + 1, map, cfg, done \o SectionQuestions(secs[i], map, cfg))

build_questions(secs, map, cfg) == QuestionsLoop(secs, 1, map, cfg, <<>>)

\* The dict appended for one chunk of a section, numbered n.
Chunk(section, chunk, n, cfg) ==
    [id |-> BaseId(cfg) \o Chars("_chunk_") \o str(n),
     text |-> to_ascii(chunk),
     metadata |-> [section_title |-> section.title, section_type |-> section.type,
                   subject |-> cfg["subject"], class |-> cfg["class"],
                   chapter |-> cfg["chapter"], book |-> cfg["book"]]]

\* A faulty iteration: the numbering starts again at 1 in every section.
SectionChunksFromOne(section, n, cfg) ==
    IF section.type = "answers" THEN <<>>
    ELSE LET parts == chunk_text(section.text, DefaultMaxWords, DefaultOverlap)
         IN  [k \in 1..Len(parts) |-> Chunk(section, parts[k], k, cfg)]

\* One iteration of the loop of build_chunks over the sections: the chunks the
\* section adds when the counter stands at n.
SectionChunks(section, n, cfg) ==
    IF section.type = "answers" THEN <<>>
    ELSE LET parts == chunk_text(section.text, DefaultMaxWords, DefaultOverlap)
         IN  [k \in 1..Len(parts) |-> Chunk(section, parts[k], n + k - 1, cfg)]

RECURSIVE ChunksLoop(_, _, _, _, _)
ChunksLoop(secs, i, n, cfg, done) ==
    IF i > Len(secs) THEN done
    ELSE LET new == SectionChunks(secs[i], n, cfg)
         IN  ChunksLoop(secs, i + 1, n + Len(new), cfg, done \o new)

build_chunks(secs, cfg) == ChunksLoop(secs, 1, 1, cfg, <<>>)

(***************************************************************************)
(* Values of the variables an operation does not use                       *)
(***************************************************************************)

\* A complete configuration with the given difficulty_levels.
SampleConfig(levels) ==
    [f \in {"input_pdf", "output_dir", "subject", "class", "chapter", "book",
            "difficulty_levels"} |->
        CASE f = "input_pdf" -> Chars("sets.pdf")
          [] f = "output_dir" -> Chars("out")
          [] f = "subject" -> Chars("Maths")
          [] f = "class" -> Chars("11")
          [] f = "chapter" -> Chars("1")
          [] f = "book" -> Chars("NCERT")
          [] OTHER -> levels]

NoEnv == [config_file |-> "missing", config_json |-> <<>>, pages |-> <<>>, pypdf |-> FALSE]

NoChunkLoop ==
    /\ words = <<>> /\ max_words = DefaultMaxWords /\ overlap = DefaultOverlap
    /\ step = 0 /\ idx = 0

NoBuild ==
    /\ answers = EmptyMap /\ questions = <<>> /\ chunks = <<>> /\ sec_i = 0 /\ chunk_index = 1

\* All sequences over S of length at most n.
SeqsUpTo(S, n) == UNION {[1..k -> S] : k \in 0..n}

\* The concatenation of a sequence of texts.
RECURSIVE Concat(_)
Concat(parts) == IF parts = <<>> THEN <<>> ELSE Head(parts) \o Concat(Tail(parts))

(***************************************************************************)
(* normalize_text applied once and then again to its own result            *)
(***************************************************************************)

\* The pieces raw texts are made of: a word character, a hyphen at a line end,
\* the characters the five steps of normalize_text act on, and a vertical tab
\* (U+000B), whitespace that only the final strip removes.
NormPieces == {<<"a">>, <<"-", "\n">>, <<"\n">>, <<"\r">>, <<" ">>, <<"\t">>, <<"">>}

MaxNormPieces == 5

InitNormalize ==
    /\ pc = "normalize"
    /\ raw_text \in {Concat(ps) : ps \in SeqsUpTo(NormPieces, MaxNormPieces)}
    /\ text = <<>> /\ renorm = <<>> /\ sections = <<>>
    /\ config = SampleConfig(5)
    /\ env = NoEnv /\ files = {} /\ outdir = FALSE /\ error = "none"
    /\ NoChunkLoop /\ NoBuild

NormalizeOnce ==
    /\ pc = "normalize"
    /\ text' = normalize_text(raw_text)
    /\ pc' = "normalized"
    /\ UNCHANGED <<env, config, raw_text, renorm, sections, answers, questions, chunks,
                   words, max_words, overlap, step, idx, sec_i, chunk_index, files,
                   outdir, error>>

NormalizeAgain ==
    /\ pc = "normalized"
    /\ renorm' = normalize_text(text)
    /\ pc' = "renormalized"
    /\ UNCHANGED <<env, config, raw_text, text, sections, answers, questions, chunks,
                   words, max_words, overlap, step, idx, sec_i, chunk_index, files,
                   outdir, error>>

NextNormalize == NormalizeOnce \/ NormalizeAgain

SpecNormalize == InitNormalize /\ [][NextNormalize]_vars

\* C2: normalize_text is idempotent: normalizing an already normalized text
\* gives the same text back.
C2_Idempotent == pc = "renormalized" => renorm = text

(***************************************************************************)
(* split_sections on a normalized text                                     *)
(***************************************************************************)

\* The lines documents are made of: body lines, blank lines, headings, and a
\* line that str.splitlines breaks at a vertical tab (U+000B) into a body line
\* and a heading that ends in a unit separator (U+001F).
SplitLineSet ==
    {Chars(""), Chars("a"), Chars(" b "), Chars("1.1 Sets"), Chars("SUMMARY"),
     Chars(" ANSWERS"), Chars("EXERCISE 1"), Chars("cSUMMARY")}

MaxSplitLines == 4

InitSplit ==
    /\ pc = "split"
    /\ \E ls \in SeqsUpTo(SplitLineSet, MaxSplitLines) :
           /\ raw_text = join(<<"\n">>, ls)
           /\ text = normalize_text(join(<<"\n">>, ls))
    /\ renorm = <<>> /\ sections = <<>>
    /\ config = SampleConfig(5)
    /\ env = NoEnv /\ files = {} /\ outdir = FALSE /\ error = "none"
    /\ NoChunkLoop /\ NoBuild

SplitSections ==
    /\ pc = "split"
    /\ sections' = split_sections(text)
    /\ pc' = "split_done"
    /\ UNCHANGED <<env, config, raw_text, text, renorm, answers, questions, chunks,
                   words, max_words, overlap, step, idx, sec_i, chunk_index, files,
                   outdir, error>>

NextSplit == SplitSections

SpecSplit == InitSplit /\ [][NextSplit]_vars

\* The lines a section stands for: its heading line (none for the front matter)
\* followed by its text.
SectionLines(sec) ==
    IF sec.title = FrontMatter THEN <<sec.text>> ELSE <<sec.title, sec.text>>

\* The document the sections stand for, heading lines reinserted.
Reconstruct(secs) == join(<<"\n">>, Concat([i \in 1..Len(secs) |-> SectionLines(secs[i])]))

\* C1: the sections partition the normalized text: every section's heading line
\* followed by its text, in order, reconstructs the normalized input exactly.
C1_Partition == pc = "split_done" => Reconstruct(sections) = text

(***************************************************************************)
(* chunk_text, one loop iteration at a time                                *)
(***************************************************************************)

\* A text of n distinct words: the word at 0-based position k is str(k).
WordsText(n) == join(<<" ">>, [i \in 1..n |-> str(i - 1)])

MaxWords == 8
MaxWindow == 4
MaxOverlap == 5
MaxDefaultWords == 350

\* The call chunk_text(text, max_words, overlap), just after words = text.split().
InitChunk ==
    /\ pc = "chunk_start"
    /\ \/ /\ max_words \in 0..MaxWindow
          /\ overlap \in 0..MaxOverlap
          /\ \E sep \in {<<" ">>, <<"", " ">>} :
                 text \in {join(sep, [i \in 1..n |-> str(i - 1)]) : n \in 0..MaxWords}
       \/ /\ max_words = DefaultMaxWords
          /\ overlap = DefaultOverlap
          /\ text \in {WordsText(n) : n \in 0..MaxDefaultWords}
    /\ words = split(text)
    /\ step = 0 /\ idx = 0
    /\ raw_text = <<>> /\ renorm = <<>> /\ sections = <<>>
    /\ config = SampleConfig(5)
    /\ env = NoEnv /\ files = {} /\ outdir = FALSE /\ error = "none"
    /\ NoBuild

\* if not words: return []
ChunkEmpty ==
    /\ pc = "chunk_start"
    /\ words = <<>>
    /\ chunks' = <<>>
    /\ pc' = "chunk_done"
    /\ UNCHANGED <<env, config, raw_text, text, renorm, sections, answers, questions,
                   words, max_words, overlap, step, idx, sec_i, chunk_index, files,
                   outdir, error>>

\* chunks = []; step = max_words - overlap (or max_words); idx = 0
ChunkStart ==
    /\ pc = "chunk_start"
    /\ words # <<>>
    /\ chunks' = <<>>
    /\ step' = ChunkStep(max_words, overlap)
    /\ idx' = 0
    /\ pc' = "chunk_loop"
    /\ UNCHANGED <<env, config, raw_text, text, renorm, sections, answers, questions,
                   words, max_words, overlap, sec_i, chunk_index, files, outdir, error>>

\* One pass of the while loop that appends a window.
ChunkWindow ==
    /\ pc = "chunk_loop"
    /\ idx < Len(words)
    /\ WordSlice(words, idx, max_words) # <<>>
    /\ chunks' = Append(chunks, join(<<" ">>, WordSlice(words, idx, max_words)))
    /\ idx' = idx + step
    /\ UNCHANGED <<pc, env, config, raw_text, text, renorm, sections, answers, questions,
                   words, max_words, overlap, step, sec_i, chunk_index, files, outdir,
                   error>>

\* if not part: break
ChunkBreak ==
    /\ pc = "chunk_loop"
    /\ idx < Len(words)
    /\ WordSlice(words, idx, max_words) = <<>>
    /\ pc' = "chunk_done"
    /\ UNCHANGED <<env, config, raw_text, text, renorm, sections, answers, questions,
                   chunks, words, max_words, overlap, step, idx, sec_i, chunk_index,
                   files, outdir, error>>

\* The loop condition fails: return chunks
ChunkReturn ==
    /\ pc = "chunk_loop"
    /\ idx >= Len(words)
    /\ pc' = "chunk_done"
    /\ UNCHANGED <<env, config, raw_text, text, renorm, sections, answers, questions,
                   chunks, words, max_words, overlap, step, idx, sec_i, chunk_index,
                   files, outdir, error>>

NextChunk == ChunkEmpty \/ ChunkStart \/ ChunkWindow \/ ChunkBreak \/ ChunkReturn

SpecChunk == InitChunk /\ [][NextChunk]_vars

\* ceil(a / b) for b > 0.
Ceil(a, b) == 0 - ((0 - a) \div b)

Abs(a) == IF a < 0 THEN 0 - a ELSE a

\* The set of the elements of a sequence.
Range(f) == {f[i] : i \in DOMAIN f}

\* The number of words of the last chunk (0 when there is none).
LastChunkWords == IF chunks = <<>> THEN 0 ELSE WordCount(chunks[Len(chunks)])

\* C6 as stated: for overlap < window the number of chunks is within 1 of
\* ceil((W - overlap) / (window - overlap)), W the number of words of the text;
\* the last chunk has at most window words, and no words give no chunks.
C6_CountAsStated ==
    LET W == WordCount(text)
    IN  (pc = "chunk_done" /\ overlap < max_words) =>
            /\ Abs(Len(chunks) - Ceil(W - overlap, max_words - overlap)) <= 1
            /\ LastChunkWords <= max_words
            /\ (W = 0 => chunks = <<>>)

\* C6 amended: for overlap < window the number of chunks is exactly
\* ceil(W / (window - overlap)); it is within 1 of
\* ceil((W - overlap) / (window - overlap)) when 2 * overlap <= window, as with
\* the defaults; the last chunk has at most window words; no words, no chunks.
C6_Count ==
    LET W == WordCount(text)
    IN  (pc = "chunk_done" /\ overlap < max_words) =>
            /\ Len(chunks) = Ceil(W, max_words - overlap)
            /\ (2 * overlap <= max_words =>
                    Abs(Len(chunks) - Ceil(W - overlap, max_words - overlap)) <= 1)
            /\ LastChunkWords <= max_words
            /\ (W = 0 => chunks = <<>>)

\* C6's case: the defaults on 200 words give 2 chunks where the formula gives 1.
C6_Witness ==
    /\ pc = "chunk_done" /\ max_words = DefaultMaxWords /\ overlap = DefaultOverlap
    /\ WordCount(text) = 200 /\ Len(chunks) = 2 /\ LastChunkWords = 40
    /\ Ceil(200 - overlap, max_words - overlap) = 1

\* The step the windows advance by, as the claim states it.
WindowStep == IF overlap >= max_words THEN max_words ELSE max_words - overlap

\* The words of window k (from 0) of a text of n words: those at the positions
\* k*step .. min(k*step + window, n) - 1.
WindowWords(k, n) ==
    [i \in 1..(Min(k * WindowStep + max_words, n) - k * WindowStep) |->
        str(k * WindowStep + i - 1)]

\* C10: with window >= 1, chunk k holds exactly the words
\* k*step .. min(k*step + window, W) - 1; the loop terminates: each pass moves
\* idx on by step >= 1 and there are never more passes than there are k with
\* k*step < W; at the return there is a chunk for every such k and for no other,
\* so every word is in some chunk; 350 words with the defaults give 3 chunks
\* that start at the words 0, 160 and 320.
C10_Windows ==
    LET W == WordCount(text)
        cw == [k \in 1..Len(chunks) |-> split(chunks[k])]
        windows == Cardinality({k \in 0..W : k * WindowStep < W})
    IN  (pc \in {"chunk_loop", "chunk_done"} /\ max_words >= 1) =>
            /\ \A k \in 0..(Len(chunks) - 1) : cw[k + 1] = WindowWords(k, W)
            /\ Len(chunks) <= windows
            /\ pc = "chunk_loop" => step >= 1 /\ idx = Len(chunks) * step
            /\ pc = "chunk_done" =>
                   /\ Len(chunks) = windows
                   /\ {str(p) : p \in 0..(W - 1)} \subseteq UNION {Range(cw[k]) : k \in 1..Len(cw)}
                   /\ (W = 350 /\ max_words = 200 /\ overlap = 40) =>
                          /\ Len(chunks) = 3
                          /\ Head(cw[1]) = str(0)
                          /\ Head(cw[2]) = str(160)
                          /\ Head(cw[3]) = str(320)

\* C10's case: 350 words with the defaults end in 3 chunks.
C10_Witness ==
    /\ pc = "chunk_done" /\ WordCount(text) = 350 /\ max_words = 200 /\ overlap = 40 /\ Len(chunks) = 3

(***************************************************************************)
(* parse_answer_key, one section at a time                                 *)
(***************************************************************************)

\* main, lines 308-309: section["text"] = to_ascii(section["text"])
AsciiSections(secs) == [i \in 1..Len(secs) |-> [secs[i] EXCEPT !.text = to_ascii(@)]]

\* The section list main builds from an extracted text.
SectionsOf(raw) == AsciiSections(split_sections(normalize_text(raw)))

\* The lines answer documents are made of: two headings, entries for the same
\* and for another number, an entry whose answer is lost to to_ascii, and a
\* numbered line without an answer, and a line that str.splitlines breaks at a
\* vertical tab (U+000B) into two entries, the first with a unit separator
\* (U+001F) for its whitespace.
AnswerDocLines ==
    {Chars("ANSWERS"), Chars("SUMMARY"), Chars("1. a"), Chars(" 1.  b "), Chars("2. é"),
     Chars("1."), Chars("3.c1. d")}

MaxAnswerDocLines == 4

InitAnswers ==
    /\ pc = "answers"
    /\ \E ls \in SeqsUpTo(AnswerDocLines, MaxAnswerDocLines) :
           /\ raw_text = join(<<"\n">>, ls)
           /\ text = normalize_text(join(<<"\n">>, ls))
           /\ sections = SectionsOf(join(<<"\n">>, ls))
    /\ renorm = <<>>
    /\ config = SampleConfig(5)
    /\ env = NoEnv /\ files = {} /\ outdir = FALSE /\ error = "none"
    /\ NoChunkLoop /\ NoBuild

\* if section["type"] != "answers": continue
AnswersSkip ==
    /\ pc = "answers"
    /\ sec_i < Len(sections)
    /\ sections[sec_i + 1].type # "answers"
    /\ sec_i' = sec_i + 1
    /\ UNCHANGED <<pc, env, config, raw_text, text, renorm, sections, answers, questions,
                   chunks, words, max_words, overlap, step, idx, chunk_index, files,
                   outdir, error>>

\* The inner loop over the lines of an answers section.
AnswersScan ==
    /\ pc = "answers"
    /\ sec_i < Len(sections)
    /\ sections[sec_i + 1].type = "answers"
    /\ answers' = AnswerLines(splitlines(sections[sec_i + 1].text), 1, answers)
    /\ sec_i' = sec_i + 1
    /\ UNCHANGED <<pc, env, config, raw_text, text, renorm, sections, questions,
                   chunks, words, max_words, overlap, step, idx, chunk_index, files,
                   outdir, error>>

\* return answers
AnswersReturn ==
    /\ pc = "answers"
    /\ sec_i = Len(sections)
    /\ pc' = "answers_done"
    /\ UNCHANGED <<env, config, raw_text, text, renorm, sections, answers, questions,
                   chunks, words, max_words, overlap, step, idx, sec_i, chunk_index,
                   files, outdir, error>>

NextAnswers == AnswersSkip \/ AnswersScan \/ AnswersReturn

SpecAnswers == InitAnswers /\ [][NextAnswers]_vars

\* The entries a line stands for under '<number>. <rest>': the pairs of a number
\* and a trimmed rest such that the line is whitespace, the number (digits), a
\* period and a rest of at least one character.
LineEntries(line) ==
    {<<SubSeq(line, a, b - 1), strip(Drop(line, b + 1))>> :
        <<a, b>> \in {ab \in (1..(Len(line) + 1)) \X (1..(Len(line) + 1)) :
                         /\ ab[1] < ab[2]
                         /\ \A i \in 1..(ab[1] - 1) : IsSpace(line[i])
                         /\ \A i \in ab[1]..(ab[2] - 1) : IsDigit(line[i])
                         /\ ab[2] + 1 <= Len(line)
                         /\ line[ab[2]] = "."}}

\* The lines of the answers sections among the first n sections, in document order.
AnswerKeyLines(n) ==
    Concat([i \in 1..n |-> IF sections[i].type = "answers"
                           THEN splitlines(sections[i].text) ELSE <<>>])

\* C8: after the sections visited so far, the value stored for a number is the
\* trimmed rest of the last '<number>. <rest>' line with that number among the
\* lines of the answers sections, every such number has an entry, and nothing
\* else (another section type, a line that does not match) adds or changes one.
C8_LastWriteWins ==
    LET L == AnswerKeyLines(sec_i)
    IN  pc \in {"answers", "answers_done"} =>
            /\ \A k \in DOMAIN answers :
                   \E i \in 1..Len(L) :
                       /\ <<k, answers[k]>> \in LineEntries(L[i])
                       /\ \A j \in (i + 1)..Len(L) : \A e \in LineEntries(L[j]) : e[1] # k
            /\ \A i \in 1..Len(L) : \A e \in LineEntries(L[i]) : e[1] \in DOMAIN answers

\* C8's case: a number has two entries with different answers, the later one is
\* stored, and a section of another type holds a matching line.
C8_Witness ==
    LET L == AnswerKeyLines(Len(sections))
    IN  /\ pc = "answers_done"
        /\ \E i \in 1..Len(L) : \E j \in (i + 1)..Len(L) :
               \E e \in LineEntries(L[i]) : \E f \in LineEntries(L[j]) :
                   e[1] = f[1] /\ e[2] # f[2] /\ answers[f[1]] = f[2]
        /\ \E n \in 1..Len(sections) :
               /\ sections[n].type # "answers"
               /\ \E m \in 1..Len(splitlines(sections[n].text)) :
                      \E e \in LineEntries(splitlines(sections[n].text)[m]) :
                          e[1] \notin DOMAIN answers

(***************************************************************************)
(* parse_questions_from_section on one exercise section                    *)
(***************************************************************************)

\* The lines exercise sections are made of: question starts of both patterns
\* (with and without trailing text), continuation lines, blank lines, and a
\* line that str.splitlines breaks at a form feed into a start (its whitespace
\* a unit separator, U+001F) and a continuation.
QuestionLineSet ==
    {Chars("1. a"), Chars(" 2.  b "), Chars("3. "), Chars("x"), Chars(" y "), Chars(""),
     Chars("Q4: c"), Chars("q.5"), Chars("6.d\fe")}

MaxQuestionLines == 4

InitQuestions ==
    /\ pc = "parse_questions"
    /\ \E ls \in SeqsUpTo(QuestionLineSet, MaxQuestionLines) :
           sections = <<[title |-> Chars("EXERCISE 1"),
                         type |-> classify_section(Chars("EXERCISE 1")),
                         text |-> join(<<"\n">>, ls)]>>
    /\ raw_text = <<>> /\ text = <<>> /\ renorm = <<>>
    /\ config = SampleConfig(5)
    /\ env = NoEnv /\ files = {} /\ outdir = FALSE /\ error = "none"
    /\ NoChunkLoop /\ NoBuild

ParseQuestions ==
    /\ pc = "parse_questions"
    /\ questions' = parse_questions_from_section(sections[1])
    /\ pc' = "questions_parsed"
    /\ UNCHANGED <<env, config, raw_text, text, renorm, sections, answers, chunks,
                   words, max_words, overlap, step, idx, sec_i, chunk_index, files,
                   outdir, error>>

NextQuestions == ParseQuestions

SpecQuestions == InitQuestions /\ [][NextQuestions]_vars

\* s without its leading whitespace.
LeftTrim(s) ==
    LET k == CHOOSE k \in 0..Len(s) :
                 /\ \A i \in 1..k : IsSpace(s[i])
                 /\ (k = Len(s) \/ ~IsSpace(s[k + 1]))
    IN  Drop(s, k + 1)

\* A question start of the first kind: whitespace, an integer, a period and at
\* least one whitespace character; its number and its trailing text.
NumberedStarts(line) ==
    {<<SubSeq(line, ab[1], ab[2] - 1), strip(Drop(line, ab[2] + 1))>> :
        ab \in {ab \in (1..(Len(line) + 1)) \X (1..(Len(line) + 1)) :
                   /\ ab[1] < ab[2]
                   /\ \A i \in 1..(ab[1] - 1) : IsSpace(line[i])
                   /\ \A i \in ab[1]..(ab[2] - 1) : IsDigit(line[i])
                   /\ ab[2] + 1 <= Len(line)
                   /\ line[ab[2]] = "."
                   /\ IsSpace(line[ab[2] + 1])}}

\* A question start of the second kind: a Q marker, an optional period, an
\* integer, an optional one of - : . and the trailing text.
MarkedStarts(line) ==
    LET t == LeftTrim(line)
        u == IF Len(t) >= 2 /\ t[2] = "." THEN LeftTrim(Drop(t, 3)) ELSE LeftTrim(Drop(t, 2))
        d == CHOOSE k \in 0..Len(u) :
                 /\ \A i \in 1..k : IsDigit(u[i])
                 /\ (k = Len(u) \/ ~IsDigit(u[k + 1]))
        r == LeftTrim(Drop(u, d + 1))
        z == IF r # <<>> /\ r[1] \in {"-", ":", "."} THEN Drop(r, 2) ELSE r
    IN  IF t # <<>> /\ t[1] \in {"Q", "q"} /\ d >= 1
        THEN {<<SubSeq(u, 1, d), strip(z)>>}
        ELSE {}

\* The question a start line opens, if the line is one.
LineStarts(line) == NumberedStarts(line) \cup MarkedStarts(line)

\* The questions a list of lines stands for: one per start line, its stem the
\* start line's trailing text (if any) and then the trimmed non-blank lines up
\* to the next start line, joined by newlines.
ExpectedQuestions(lines) ==
    LET starts == SelectSeq([i \in 1..Len(lines) |-> i], LAMBDA i : LineStarts(lines[i]) # {})
        last(j) == IF j < Len(starts) THEN starts[j + 1] - 1 ELSE Len(lines)
        opening(j) == CHOOSE e \in LineStarts(lines[starts[j]]) : TRUE
        body(j) == SelectSeq([i \in 1..(last(j) - starts[j]) |-> strip(lines[starts[j] + i])],
                             LAMBDA l : l # <<>>)
        stem(j) == (IF opening(j)[2] # <<>> THEN <<opening(j)[2]>> ELSE <<>>) \o body(j)
    IN  [j \in 1..Len(starts) |->
            [number |-> opening(j)[1], text |-> join(<<"\n">>, stem(j))]]

\* C9: parse_questions_from_section returns exactly one question per question
\* start line, in line order, each with the stem made of the start line's
\* trailing text and the trimmed non-blank lines up to the next start line;
\* lines before the first start and blank lines are in no stem, and the last
\* open question is returned too.
C9_Accumulation ==
    pc = "questions_parsed" =>
        /\ \A i \in 1..Len(splitlines(sections[1].text)) :
               Cardinality(LineStarts(splitlines(sections[1].text)[i])) <= 1
        /\ questions = ExpectedQuestions(splitlines(sections[1].text))

\* C9's case: a non-blank line before the first start, two questions, the
\* first with a stem of several lines and the last closed at the end of the text.
C9_Witness ==
    LET lines == splitlines(sections[1].text)
    IN  /\ pc = "questions_parsed"
        /\ Len(lines) = 4 /\ Len(questions) = 2
        /\ LineStarts(lines[1]) = {} /\ strip(lines[1]) # <<>>
        /\ LineStarts(lines[4]) # {}
        /\ \E i \in 1..Len(questions[1].text) : questions[1].text[i] = "\n"

(***************************************************************************)
(* build_questions, one section of the list at a time                      *)
(***************************************************************************)

\* The number of words above which a stem scores as long, plus one.
LongLine == join(<<" ">>, [k \in 1..(LongStemWords + 1) |-> <<"w">>])

\* One continuation line for each of the five scoring rules.
RulePhrases ==
    <<Chars("prove it"), Chars("if a then b"), Chars("(a) c"), LongLine, Chars("a = b")>>

PhrasesOf(S) == [k \in 1..Cardinality(S) |->
                    RulePhrases[CHOOSE r \in S : Cardinality({x \in S : x < r}) = k - 1]]

\* An exercise of two questions: the first has the lines of the rules in S,
\* the second those of the other rules.
ExerciseLines(S) ==
    <<Chars("1. q")>> \o PhrasesOf(S) \o <<Chars("Q2: r")>> \o PhrasesOf((1..5) \ S)

\* The lines answer keys are made of: answers for both questions, a line whose
\* answer is blank and a line whose answer is lost to to_ascii.
AnswerKeyLineSet == {Chars("1. a"), Chars("1. "), Chars("2. é"), Chars("2. b")}

MaxAnswerKeyLines == 2

MaxLevels == 7

\* The section list main hands to build_questions for the rules in S and the
\* answer-key lines ls.
BuildSections(S, ls) ==
    AsciiSections(<<make_section(Chars("EXERCISE 1.1"), ExerciseLines(S)),
                    make_section(Chars("ANSWERS"), ls)>>)

\* Every set of rules with one answer key, and every answer key with the
\* short stems; every difficulty_levels from -1 up with both.
InitBuild ==
    /\ pc = "build_questions"
    /\ \E S \in SUBSET (1..5) : \E ls \in SeqsUpTo(AnswerKeyLineSet, MaxAnswerKeyLines) :
           /\ ls = <<Chars("1. a")>> \/ S \in {{}, {3}}
           /\ sections = BuildSections(S, ls)
           /\ answers = parse_answer_key(BuildSections(S, ls))
    /\ \E levels \in (-1)..MaxLevels : config = SampleConfig(levels)
    /\ raw_text = <<>> /\ text = <<>> /\ renorm = <<>>
    /\ env = NoEnv /\ files = {} /\ outdir = FALSE /\ error = "none"
    /\ NoChunkLoop
    /\ questions = <<>> /\ chunks = <<>> /\ sec_i = 0 /\ chunk_index = 1

\* if section["type"] != "exercise": continue
QuestionsSkip ==
    /\ pc = "build_questions"
    /\ sec_i < Len(sections)
    /\ sections[sec_i + 1].type # "exercise"
    /\ sec_i' = sec_i + 1
    /\ UNCHANGED <<pc, env, config, raw_text, text, renorm, sections, answers, questions,
                   chunks, words, max_words, overlap, step, idx, chunk_index, files,
                   outdir, error>>

\* The questions of an exercise section are parsed, built and appended.
QuestionsSection ==
    /\ pc = "build_questions"
    /\ sec_i < Len(sections)
    /\ sections[sec_i + 1].type = "exercise"
    /\ questions' = questions \o SectionQuestions(sections[sec_i + 1], answers, config)
    /\ sec_i' = sec_i + 1
    /\ UNCHANGED <<pc, env, config, raw_text, text, renorm, sections, answers, chunks,
                   words, max_words, overlap, step, idx, chunk_index, files, outdir, error>>

\* return questions
QuestionsReturn ==
    /\ pc = "build_questions"
    /\ sec_i = Len(sections)
    /\ pc' = "questions_built"
    /\ UNCHANGED <<env, config, raw_text, text, renorm, sections, answers, questions,
                   chunks, words, max_words, overlap, step, idx, sec_i, chunk_index,
                   files, outdir, error>>

NextBuild == QuestionsSkip \/ QuestionsSection \/ QuestionsReturn

SpecBuild == InitBuild /\ [][NextBuild]_vars

\* C3: every generated question has 1 <= difficulty <= difficulty_levels,
\* whichever of the five rules fire and whatever integer is configured.
C3_DifficultyBound ==
    pc \in {"build_questions", "questions_built"} =>
        \A i \in 1..Len(questions) :
            /\ 1 <= questions[i].difficulty
            /\ questions[i].difficulty <= config["difficulty_levels"]

\* C5: a question is labelled 'answer_key' exactly when its answer is not null
\* and 'missing' exactly when it is null.
C5_AnswerLinkage ==
    pc \in {"build_questions", "questions_built"} =>
        \A i \in 1..Len(questions) :
            /\ questions[i].answer_source = "answer_key" <=> questions[i].answer # None
            /\ questions[i].answer_source = "missing" <=> questions[i].answer = None

\* C5's case: of two built questions one has an answer from the key and the
\* other is numbered like a key entry whose answer is the empty string.
C5_Witness ==
    /\ pc = "questions_built"
    /\ Len(questions) = 2
    /\ \E i, j \in 1..2 :
           /\ questions[i].answer_source = "answer_key" /\ questions[i].answer # None
           /\ Get(answers, questions[j].question_number) = Some(<<>>)
           /\ questions[j].answer_source = "missing" /\ questions[j].answer = None

(***************************************************************************)
(* build_chunks, one section of the list at a time                         *)
(***************************************************************************)

\* The sections chunked documents are made of: an answers section with words,
\* a section without words, one that needs two windows and one that needs one.
ChunkSectionSet ==
    {make_section(Chars("ANSWERS"), <<WordsText(DefaultMaxWords - DefaultOverlap + 1)>>),
     make_section(Chars("SUMMARY"), <<>>),
     make_section(Chars("1.1 Sets"), <<WordsText(DefaultMaxWords - DefaultOverlap + 1)>>),
     make_section(Chars("EXERCISE 1"), <<Chars("1. a")>>)}

MaxChunkSections == 3

InitChunks ==
    /\ pc = "build_chunks"
    /\ sections \in SeqsUpTo(ChunkSectionSet, MaxChunkSections)
    /\ \E c \in {Chars("11"), Chars("12")} : config = [SampleConfig(5) EXCEPT !["class"] = c]
    /\ raw_text = <<>> /\ text = <<>> /\ renorm = <<>>
    /\ env = NoEnv /\ files = {} /\ outdir = FALSE /\ error = "none"
    /\ NoChunkLoop /\ NoBuild

\* if section["type"] == "answers": continue
ChunksSkip ==
    /\ pc = "build_chunks"
    /\ sec_i < Len(sections)
    /\ sections[sec_i + 1].type = "answers"
    /\ sec_i' = sec_i + 1
    /\ UNCHANGED <<pc, env, config, raw_text, text, renorm, sections, answers, questions,
                   chunks, words, max_words, overlap, step, idx, chunk_index, files,
                   outdir, error>>

\* The inner loop over chunk_text(section["text"]): every chunk is appended
\* under the counter, which moves on by one each time.
ChunksSection ==
    /\ pc = "build_chunks"
    /\ sec_i < Len(sections)
    /\ sections[sec_i + 1].type # "answers"
    /\ chunks' = chunks \o SectionChunks(sections[sec_i + 1], chunk_index, config)
    /\ chunk_index' = chunk_index + Len(SectionChunks(sections[sec_i + 1], chunk_index, config))
    /\ sec_i' = sec_i + 1
    /\ UNCHANGED <<pc, env, config, raw_text, text, renorm, sections, answers, questions,
                   words, max_words, overlap, step, idx, files, outdir, error>>

\* return chunks
ChunksReturn ==
    /\ pc = "build_chunks"
    /\ sec_i = Len(sections)
    /\ pc' = "chunks_built"
    /\ UNCHANGED <<env, config, raw_text, text, renorm, sections, answers, questions,
                   chunks, words, max_words, overlap, step, idx, sec_i, chunk_index,
                   files, outdir, error>>

NextChunks == ChunksSkip \/ ChunksSection \/ ChunksReturn

SpecChunks == InitChunks /\ [][NextChunks]_vars

\* The number of chunks section i stands for: none for an answers section,
\* else one per started window of its words.
ChunksDue(i) ==
    IF sections[i].type = "answers" THEN 0
    ELSE Ceil(WordCount(sections[i].text), DefaultMaxWords - DefaultOverlap)

\* The titles of the chunks due for the first n sections, in document order.
TitlesDue(n) ==
    Concat([i \in 1..n |-> [k \in 1..ChunksDue(i) |-> sections[i].title]])

\* C7: the chunks built so far are numbered 1, 2, ..., N in output order in
\* their ids '<base>_chunk_<n>' and the counter stands at N + 1; each visited
\* section has contributed, in document order, exactly the chunks due for it:
\* none for an answers section or a section without words.
C7_GlobalCounter ==
    pc \in {"build_chunks", "chunks_built"} =>
        /\ \A k \in 1..Len(chunks) :
               chunks[k].id = BaseId(config) \o Chars("_chunk_") \o str(k)
        /\ chunk_index = Len(chunks) + 1
        /\ [k \in 1..Len(chunks) |-> chunks[k].metadata.section_title] = TitlesDue(sec_i)
        /\ \A k \in 1..Len(chunks) : chunks[k].metadata.section_type # "answers"

\* C7's case: an answers section with words lies between a section of two
\* chunks and a section of one, and the numbering runs on from 2 to 3.
C7_Witness ==
    /\ pc = "chunks_built"
    /\ Len(sections) = 3 /\ Len(chunks) = 3
    /\ sections[2].type = "answers" /\ WordCount(sections[2].text) > 0
    /\ chunks[2].metadata.section_title = sections[1].title
    /\ chunks[3].metadata.section_title = sections[3].title
    /\ chunks[3].id = BaseId(config) \o Chars("_chunk_3")

(***************************************************************************)
(* main: one run of the pipeline, step by step                             *)
(***************************************************************************)

\* The recognized fields of config.json.
ConfigFields ==
    {"input_pdf", "output_dir", "subject", "class", "chapter", "book", "difficulty_levels"}

\* The documents a run may find: the texts of the pages in order, None for a
\* page whose extraction raises or returns nothing. The last page of the long
\* document has a vertical tab (U+000B) for a line end and a no-break space
\* (U+00A0) that to_ascii drops.
Documents ==
    {<<>>,
     <<None>>,
     <<Some(Chars("intro é"))>>,
     <<Some(Chars("EXERCISE 1\n1. a = b\n(a) c")), None, Some(Chars("ANSWERS1. x\r\n2. y"))>>}

\* A run finds no config.json, one that is not JSON, or one with any subset of
\* the recognized fields; the PDF is one of Documents; pypdf is there or not.
\* The output directory can be created and written.
Init ==
    /\ pc = "main_load"
    /\ \E cf \in {"missing", "invalid", "ok"} : \E D \in SUBSET ConfigFields :
       \E doc \in Documents : \E lib \in BOOLEAN :
           /\ cf # "ok" => D = {}
           /\ env = [config_file |-> cf,
                     config_json |-> [f \in D |-> SampleConfig(5)[f]],
                     pages |-> doc,
                     pypdf |-> lib]
    /\ config = <<>>
    /\ raw_text = <<>> /\ text = <<>> /\ renorm = <<>> /\ sections = <<>>
    /\ files = {} /\ outdir = FALSE /\ error = "none"
    /\ NoChunkLoop /\ NoBuild

\* load_config raises: open() finds no file or json.load rejects its content.
LoadConfigFails ==
    /\ pc = "main_load"
    /\ env.config_file # "ok"
    /\ pc' = "failed"
    /\ error' = IF env.config_file = "missing" THEN "FileNotFoundError" ELSE "JSONDecodeError"
    /\ UNCHANGED <<env, config, raw_text, text, renorm, sections, answers, questions,
                   chunks, words, max_words, overlap, step, idx, sec_i, chunk_index,
                   files, outdir>>

\* config = load_config()
LoadConfig ==
    /\ pc = "main_load"
    /\ env.config_file = "ok"
    /\ config' = env.config_json
    /\ pc' = "main_paths"
    /\ UNCHANGED <<env, raw_text, text, renorm, sections, answers, questions, chunks,
                   words, max_words, overlap, step, idx, sec_i, chunk_index, files,
                   outdir, error>>

\* config["input_pdf"] or config["output_dir"] raises KeyError.
PathsFail ==
    /\ pc = "main_paths"
    /\ ~({"input_pdf", "output_dir"} \subseteq DOMAIN config)
    /\ pc' = "failed"
    /\ error' = "KeyError"
    /\ UNCHANGED <<env, config, raw_text, text, renorm, sections, answers, questions,
                   chunks, words, max_words, overlap, step, idx, sec_i, chunk_index,
                   files, outdir>>

\* output_dir.mkdir(parents=True, exist_ok=True)
MakeOutputDir ==
    /\ pc = "main_paths"
    /\ {"input_pdf", "output_dir"} \subseteq DOMAIN config
    /\ outdir' = TRUE
    /\ pc' = "main_extract"
    /\ UNCHANGED <<env, config, raw_text, text, renorm, sections, answers, questions,
                   chunks, words, max_words, overlap, step, idx, sec_i, chunk_index,
                   files, error>>

\* extract_text raises RuntimeError: pypdf cannot be imported.
ExtractFails ==
    /\ pc = "main_extract"
    /\ ~env.pypdf
    /\ pc' = "failed"
    /\ error' = "RuntimeError"
    /\ UNCHANGED <<env, config, raw_text, text, renorm, sections, answers, questions,
                   chunks, words, max_words, overlap, step, idx, sec_i, chunk_index,
                   files, outdir>>

\* extract_text: "\n\n".join(pages), a failed page counting as "".
extract_text(pages) ==
    join(<<"\n", "\n">>, [i \in 1..Len(pages) |-> IF pages[i] = None THEN <<>> ELSE pages[i][1]])

\* raw_text = extract_text(pdf_path)
Extract ==
    /\ pc = "main_extract"
    /\ env.pypdf
    /\ raw_text' = extract_text(env.pages)
    /\ pc' = "main_normalize"
    /\ UNCHANGED <<env, config, text, renorm, sections, answers, questions, chunks,
                   words, max_words, overlap, step, idx, sec_i, chunk_index, files,
                   outdir, error>>

\* raw_text = normalize_text(raw_text), and raw_text.txt is written.
WriteRawText ==
    /\ pc = "main_normalize"
    /\ text' = normalize_text(raw_text)
    /\ files' = files \cup {"raw_text.txt"}
    /\ pc' = "main_split"
    /\ UNCHANGED <<env, config, raw_text, renorm, sections, answers, questions, chunks,
                   words, max_words, overlap, step, idx, sec_i, chunk_index, outdir, error>>

\* sections = split_sections(raw_text), each text reduced by to_ascii.
Split ==
    /\ pc = "main_split"
    /\ sections' = AsciiSections(split_sections(text))
    /\ pc' = "main_answers"
    /\ UNCHANGED <<env, config, raw_text, text, renorm, answers, questions, chunks,
                   words, max_words, overlap, step, idx, sec_i, chunk_index, files,
                   outdir, error>>

\* answers = parse_answer_key(sections)
ParseAnswers ==
    /\ pc = "main_answers"
    /\ answers' = parse_answer_key(sections)
    /\ pc' = "main_questions"
    /\ UNCHANGED <<env, config, raw_text, text, renorm, sections, questions, chunks,
                   words, max_words, overlap, step, idx, sec_i, chunk_index, files,
                   outdir, error>>

\* The fields build_questions reads: those of base_id always, and
\* difficulty_levels and the metadata's fields once there is a question.
QuestionFields(secs) ==
    {"subject", "class", "chapter"}
        \cup (IF \E i \in 1..Len(secs) :
                    secs[i].type = "exercise" /\ parse_questions_from_section(secs[i]) # <<>>
              THEN {"difficulty_levels", "subject", "class", "chapter", "book"}
              ELSE {})

\* The fields build_chunks reads: those of base_id always, and the metadata's
\* fields once there is a chunk.
ChunkFields(secs) ==
    {"subject", "class", "chapter"}
        \cup (IF \E i \in 1..Len(secs) :
                    secs[i].type # "answers" /\ split(secs[i].text) # <<>>
              THEN {"subject", "class", "chapter", "book"}
              ELSE {})

\* build_questions raises KeyError on a field the configuration lacks.
BuildQuestionsFails ==
    /\ pc = "main_questions"
    /\ ~(QuestionFields(sections) \subseteq DOMAIN config)
    /\ pc' = "failed"
    /\ error' = "KeyError"
    /\ UNCHANGED <<env, config, raw_text, text, renorm, sections, answers, questions,
                   chunks, words, max_words, overlap, step, idx, sec_i, chunk_index,
                   files, outdir>>

\* questions = build_questions(sections, answers, config)
BuildQuestions ==
    /\ pc = "main_questions"
    /\ QuestionFields(sections) \subseteq DOMAIN config
    /\ questions' = build_questions(sections, answers, config)
    /\ pc' = "main_chunks"
    /\ UNCHANGED <<env, config, raw_text, text, renorm, sections, answers, chunks,
                   words, max_words, overlap, step, idx, sec_i, chunk_index, files,
                   outdir, error>>

\* build_chunks raises KeyError on a field the configuration lacks.
BuildChunksFails ==
    /\ pc = "main_chunks"
    /\ ~(ChunkFields(sections) \subseteq DOMAIN config)
    /\ pc' = "failed"
    /\ error' = "KeyError"
    /\ UNCHANGED <<env, config, raw_text, text, renorm, sections, answers, questions,
                   chunks, words, max_words, overlap, step, idx, sec_i, chunk_index,
                   files, outdir>>

\* chunks = build_chunks(sections, config)
BuildChunks ==
    /\ pc = "main_chunks"
    /\ ChunkFields(sections) \subseteq DOMAIN config
    /\ chunks' = build_chunks(sections, config)
    /\ pc' = "main_write"
    /\ UNCHANGED <<env, config, raw_text, text, renorm, sections, answers, questions,
                   words, max_words, overlap, step, idx, sec_i, chunk_index, files,
                   outdir, error>>

\* The three write_json calls for sections, questions and chunks.
WriteJson ==
    /\ pc = "main_write"
    /\ files' = files \cup {"sections.json", "questions.json", "chunks.json"}
    /\ pc' = "main_report"
    /\ UNCHANGED <<env, config, raw_text, text, renorm, sections, answers, questions,
                   chunks, words, max_words, overlap, step, idx, sec_i, chunk_index,
                   outdir, error>>

\* The report is built and written, and the counts are printed.
WriteReport ==
    /\ pc = "main_report"
    /\ files' = files \cup {"report.json"}
    /\ pc' = "done"
    /\ UNCHANGED <<env, config, raw_text, text, renorm, sections, answers, questions,
                   chunks, words, max_words, overlap, step, idx, sec_i, chunk_index,
                   outdir, error>>

Next ==
    \/ LoadConfigFails \/ LoadConfig
    \/ PathsFail \/ MakeOutputDir
    \/ ExtractFails \/ Extract
    \/ WriteRawText \/ Split \/ ParseAnswers
    \/ BuildQuestionsFails \/ BuildQuestions
    \/ BuildChunksFails \/ BuildChunks
    \/ WriteJson \/ WriteReport

Spec == Init /\ [][Next]_vars

\* The run's configuration is missing, unreadable or lacks a recognized field.
ConfigBad == env.config_file # "ok" \/ DOMAIN env.config_json # ConfigFields

\* C4: a run whose configuration is missing, unreadable or lacks a recognized
\* field never writes an output file and never completes.
C4_NoOutputOnConfigError ==
    ConfigBad => files = {} /\ pc # "done"

====
